---- MODULE Spec2Model ----
(***************************************************************************)
(* Model of process_billing.py: process_google_sheets_data(), the routine  *)
(* that merges an uploaded sheet (File B) into the "All_accounts" sheet    *)
(* (File A), resets column L and deletes the uploaded document.            *)
(*                                                                         *)
(* Python indices are 0-based and TLA+ sequences 1-based: At and Slice     *)
(* take Python indices.  A cell is a tagged pair, so that the number 400   *)
(* the code appends and the text "400" a later read returns are different  *)
(* values.                                                                 *)
(***************************************************************************)
EXTENDS Integers, Sequences, FiniteSets, TLC

VARIABLES
    pc,         \* position of the run inside process_google_sheets_data
    run,        \* number of the current invocation of the script
    sheet_a,    \* remote: stored cells of worksheet "All_accounts"
    sheet_b,    \* remote: stored cells of the uploaded sheet
    b_exists,   \* remote: the uploaded document has not been deleted
    data_a,     \* in memory: grid read from File A, mutated by the merge
    data_b,     \* in memory: grid read from File B
    lookup_a,   \* in memory: account number -> row index in data_a
    new_rows,   \* in memory: rows collected for append
    i,          \* in memory: index of the next row of data_b[1:]
    last_row,   \* in memory: row count read after the write-back
    ops,        \* history: <<operation, succeeded>> for each call the current run made
    loaded_a,   \* history: data_a as it was read by the current run
    prev        \* history: what the previous completed run left behind

vars == <<pc, run, sheet_a, sheet_b, b_exists, data_a, data_b, lookup_a,
          new_rows, i, last_row, ops, loaded_a, prev>>

----------------------------------------------------------------------------
(* Bounds of the model *)

MaxMainRows == 2
MaxIncomingRows == 2
MaxRuns == 2

(* Widths of the two sheets the model starts from.  get_all_values returns *)
(* a rectangular grid, so every row of a table has the table's width.     *)
MainWidths == {4, 12}
IncomingWidths == {5, 6, 7, 8}

MainKeys == {"", "ACC1", "ACC2"}
IncomingKeys == {"", "ACC1", "ACC9"}

(* What the array formula of L2 shows in a row whose column A is filled.  *)
LookupResult == "T1"

----------------------------------------------------------------------------
(* Program constants *)

KEY_COL_A == 4
KEY_COL_B == 5
UPDATE_LO == 1
UPDATE_HI == 5
UPDATE_WIDTH == 4
APPEND_HI == 8
DEFAULT_VALUE == 400
COL_L == 11
FORMULA_ROW == 2

formula ==
    "=ARRAYFORMULA(if(A2:A=\"\",\"\",xlookup(XLOOKUP(B2:B,'DTR Details'!L13:L68,'DTR Details'!M13:M68),'DTR Details'!L5:L9,'DTR Details'!M5:M9)))"

----------------------------------------------------------------------------
(* Cells and Python list operations *)

Str(s) == <<"str", s>>
Num(n) == <<"int", n>>
FormulaCell(f) == <<"formula", f>>
Blank == Str("")

Min(a, b) == IF a < b THEN a ELSE b
Max(a, b) == IF a > b THEN a ELSE b

\* row[j]
At(row, j) == row[j + 1]

\* row[lo:hi]: a slice never fails, it stops at the end of the list
Slice(row, lo, hi) == SubSeq(row, lo + 1, Min(hi, Len(row)))

\* row[j] raises IndexError
OutOfRange(row, j) == j >= Len(row)

\* not value
IsFalsy(cell) == cell = Blank

----------------------------------------------------------------------------
(* The remote spreadsheet service *)

\* value_input_option='USER_ENTERED': the service parses what is written
Entered(cell) ==
    IF cell[1] = "str" /\ cell[2] = formula THEN FormulaCell(formula)
    ELSE IF cell[1] = "str" /\ cell[2] = ToString(DEFAULT_VALUE) THEN Num(DEFAULT_VALUE)
    ELSE cell

\* what a read returns for a stored cell: always text
Displayed(cell, computed) ==
    IF cell[1] = "int" THEN Str(ToString(cell[2]))
    ELSE IF cell[1] = "formula" THEN Str(computed)
    ELSE cell

SheetWidth(sheet) ==
    LET lens == {Len(sheet[r]) : r \in 1..Len(sheet)}
    IN  IF lens = {} THEN 0 ELSE CHOOSE w \in lens : \A v \in lens : v <= w

StoredAt(sheet, r, j) ==
    IF r <= Len(sheet) /\ j < Len(sheet[r]) THEN At(sheet[r], j) ELSE Blank

HasFormula(sheet) == StoredAt(sheet, FORMULA_ROW, COL_L) = FormulaCell(formula)

\* ARRAYFORMULA(if(A2:A="","",xlookup(...))): the value shown in row r
Computed(sheet, r) == IF StoredAt(sheet, r, 0) = Blank THEN "" ELSE LookupResult

\* get_all_values(): the grid of displayed values, short rows padded; the
\* formula of L2 fills the empty cells of column L below it
GetAllValues(sheet) ==
    [r \in 1..Len(sheet) |->
        [c \in 1..SheetWidth(sheet) |->
            IF /\ c = COL_L + 1
               /\ r > FORMULA_ROW
               /\ HasFormula(sheet)
               /\ StoredAt(sheet, r, COL_L) = Blank
            THEN Str(Computed(sheet, r))
            ELSE Displayed(StoredAt(sheet, r, c - 1), Computed(sheet, r))]]

\* update('A1', grid): overwrite exactly the cells of the grid
UpdateA1(sheet, grid) ==
    [r \in 1..Max(Len(sheet), Len(grid)) |->
        LET wOld == IF r <= Len(sheet) THEN Len(sheet[r]) ELSE 0
            wNew == IF r <= Len(grid) THEN Len(grid[r]) ELSE 0
        IN  [c \in 1..Max(wOld, wNew) |->
                IF c <= wNew THEN Entered(grid[r][c]) ELSE sheet[r][c]]]

\* append_rows(rows): after the last row
AppendRows(sheet, rows) ==
    sheet \o [r \in 1..Len(rows) |-> [c \in 1..Len(rows[r]) |-> Entered(rows[r][c])]]

\* variant: the range stops one row early
ClearRows_Short(last) == FORMULA_ROW..(last - 1)

\* the rows the range L2:L{last} covers
ClearRows(last) == FORMULA_ROW..last

\* batch_clear(["L2:L{last}"])
BatchClear(sheet, last) ==
    [r \in 1..Len(sheet) |->
        [c \in 1..Len(sheet[r]) |->
            IF c = COL_L + 1 /\ r \in ClearRows(last) THEN Blank ELSE sheet[r][c]]]

\* update('L2', formula)
UpdateL2(sheet, text) ==
    [r \in 1..Max(Len(sheet), FORMULA_ROW) |->
        LET wOld == IF r <= Len(sheet) THEN Len(sheet[r]) ELSE 0
            wNew == IF r = FORMULA_ROW THEN Max(wOld, COL_L + 1) ELSE wOld
        IN  [c \in 1..wNew |->
                IF r = FORMULA_ROW /\ c = COL_L + 1 THEN Entered(Str(text))
                ELSE IF c <= wOld THEN sheet[r][c] ELSE Blank]]

----------------------------------------------------------------------------
(* The merge, lines 51-73 *)

\* data_a[1:] and data_b[1:] are indexed 1..DataRows(...)
DataRows(data) == IF Len(data) = 0 THEN 0 ELSE Len(data) - 1

\* variant: the first row with a key keeps it
LookupIndex_First(rows) == CHOOSE m \in rows : \A n \in rows : m <= n

\* {row[4]: i for i, row in enumerate(data_a[1:], 1)}: a later row replaces
\* an earlier one with the same key
LookupIndex(rows) == CHOOSE m \in rows : \A n \in rows : n <= m

BuildLookup(data) ==
    LET keys == {At(data[r + 1], KEY_COL_A) : r \in 1..DataRows(data)}
    IN  [k \in keys |->
            LookupIndex({r \in 1..DataRows(data) : At(data[r + 1], KEY_COL_A) = k})]

\* the dict comprehension raises IndexError on a row without index 4
LookupFaults(data) ==
    \E r \in 1..DataRows(data) : OutOfRange(data[r + 1], KEY_COL_A)

\* variant: no test for an empty account number
SkipRow_Never(account_b) == FALSE

\* if not account_b: continue
SkipRow(account_b) == IsFalsy(account_b)

\* variant: the leading column of File B is not skipped
UpdatedRow_NoSkip(row_a, row_b) ==
    Slice(row_b, 0, UPDATE_WIDTH) \o Slice(row_a, UPDATE_WIDTH, Len(row_a))

\* data_a[row_index_a][:4] = row_b[1:5]
UpdatedRow(row_a, row_b) ==
    Slice(row_b, UPDATE_LO, UPDATE_HI) \o Slice(row_a, UPDATE_WIDTH, Len(row_a))

\* variant: the default value is left out
NewRowData_NoDefault(row_b) == Slice(row_b, UPDATE_LO, APPEND_HI + 1)

\* row_b[1:8] + [400]
NewRowData(row_b) == Slice(row_b, UPDATE_LO, APPEND_HI) \o <<Num(DEFAULT_VALUE)>>

\* variant: every index of the append span is read one by one
RowFaults_Span(row_b) == OutOfRange(row_b, APPEND_HI - 1)

\* account_b = row_b[5] raises IndexError
RowFaults(row_b) == OutOfRange(row_b, KEY_COL_B)

\* variant: a matched key is taken out of the lookup (lookup_a.pop)
LookupAfterRow_Pop(lookup, account_b, row_b) ==
    [k \in DOMAIN lookup \ {account_b} |-> lookup[k]]

\* the lookup the loop body leaves behind: it never writes lookup_a
LookupAfterRow(lookup, account_b, row_b) == lookup

----------------------------------------------------------------------------
(* Initial state: two sheets on the service, nothing in memory *)

MainCell(r, j, key) ==
    IF j = KEY_COL_A THEN Str(key)
    ELSE IF r = 0 THEN Str("h" \o ToString(j))
    ELSE Str("a" \o ToString(r) \o "_" \o ToString(j))

IncomingCell(r, j, key) ==
    IF j = KEY_COL_B THEN Str(key)
    ELSE IF r = 0 THEN Str("g" \o ToString(j))
    ELSE Str("b" \o ToString(r) \o "_" \o ToString(j))

MainSheet(keys, w) ==
    [r \in 1..(Len(keys) + 1) |->
        [c \in 1..w |-> MainCell(r - 1, c - 1, IF r = 1 THEN "Account" ELSE keys[r - 1])]]

IncomingSheet(keys, w) ==
    [r \in 1..(Len(keys) + 1) |->
        [c \in 1..w |-> IncomingCell(r - 1, c - 1, IF r = 1 THEN "Account" ELSE keys[r - 1])]]

KeySeqs(S, n) == UNION {[1..m -> S] : m \in 0..n}

NoPrev == [done |-> FALSE, sheet |-> <<>>, new_rows |-> <<>>, merged |-> <<>>,
           lookup |-> <<>>, data_b |-> <<>>]

Init ==
    /\ pc = "auth"
    /\ run = 1
    /\ \E ka \in KeySeqs(MainKeys, MaxMainRows), wa \in MainWidths :
            sheet_a = MainSheet(ka, wa)
    /\ \E kb \in KeySeqs(IncomingKeys, MaxIncomingRows), wb \in IncomingWidths :
            sheet_b = IncomingSheet(kb, wb)
    /\ b_exists = TRUE
    /\ data_a = <<>>
    /\ data_b = <<>>
    /\ lookup_a = <<>>
    /\ new_rows = <<>>
    /\ i = 0
    /\ last_row = 0
    /\ ops = <<>>
    /\ loaded_a = <<>>
    /\ prev = NoPrev

----------------------------------------------------------------------------
(* Stage transitions *)

\* variant: a failed clear is swallowed and the run goes on
OnFailure_ClearIgnored(stage) ==
    IF stage = "delete" THEN "done"
    ELSE IF stage = "clear" THEN "formula"
    ELSE "aborted"

\* variant: a failed deletion returns like every other failure
OnFailure_AllFatal(stage) == "aborted"

\* except Exception: print; return   (lines 25-27, 42-44, 103-105), and
\* except Exception: print           (lines 112-113)
OnFailure(stage) == IF stage = "delete" THEN "done" ELSE "aborted"

\* if new_rows: append_rows(...)
AfterOverwrite(rows) == IF rows # <<>> THEN "append" ELSE "count"

\* if last_row > 1: batch_clear(...)
AfterCount(last) == IF last > 1 THEN "clear" ELSE "formula"

Issue(name, ok) == ops' = Append(ops, <<name, ok>>)

\* lines 15-27
Authenticate ==
    /\ pc = "auth"
    /\ \E ok \in BOOLEAN :
        /\ Issue("auth", ok)
        /\ pc' = IF ok THEN "load_a" ELSE OnFailure("auth")
    /\ UNCHANGED <<run, sheet_a, sheet_b, b_exists, data_a, data_b, lookup_a,
                   new_rows, i, last_row, loaded_a, prev>>

\* lines 33-35
LoadMain ==
    /\ pc = "load_a"
    /\ \E ok \in BOOLEAN :
        /\ Issue("read_main", ok)
        /\ IF ok
           THEN /\ data_a' = GetAllValues(sheet_a)
                /\ loaded_a' = GetAllValues(sheet_a)
                /\ pc' = "load_b"
           ELSE /\ UNCHANGED <<data_a, loaded_a>>
                /\ pc' = OnFailure("load_a")
    /\ UNCHANGED <<run, sheet_a, sheet_b, b_exists, data_b, lookup_a,
                   new_rows, i, last_row, prev>>

\* lines 38-40; opening a deleted document fails
LoadIncoming ==
    /\ pc = "load_b"
    /\ \E ok \in BOOLEAN :
        /\ ok => b_exists
        /\ Issue("read_incoming", ok)
        /\ IF ok
           THEN /\ data_b' = GetAllValues(sheet_b)
                /\ pc' = "lookup"
           ELSE /\ UNCHANGED data_b
                /\ pc' = OnFailure("load_b")
    /\ UNCHANGED <<run, sheet_a, sheet_b, b_exists, data_a, lookup_a,
                   new_rows, i, last_row, loaded_a, prev>>

\* lines 51-53
MakeLookup ==
    /\ pc = "lookup"
    /\ IF LookupFaults(data_a)
       THEN /\ pc' = "fault"
            /\ UNCHANGED <<lookup_a, new_rows, i>>
       ELSE /\ lookup_a' = BuildLookup(data_a)
            /\ new_rows' = <<>>
            /\ i' = 1
            /\ pc' = "merge"
    /\ UNCHANGED <<run, sheet_a, sheet_b, b_exists, data_a, data_b,
                   last_row, ops, loaded_a, prev>>

\* lines 56-73, one iteration
MergeRow ==
    /\ pc = "merge"
    /\ i <= DataRows(data_b)
    /\ LET row_b == data_b[i + 1] IN
        IF RowFaults(row_b)
        THEN /\ pc' = "fault"
             /\ UNCHANGED <<data_a, new_rows, lookup_a, i>>
        ELSE LET account_b == At(row_b, KEY_COL_B) IN
             /\ pc' = "merge"
             /\ i' = i + 1
             /\ lookup_a' = LookupAfterRow(lookup_a, account_b, row_b)
             /\ IF SkipRow(account_b)
                THEN UNCHANGED <<data_a, new_rows>>
                ELSE IF account_b \in DOMAIN lookup_a
                THEN /\ data_a' = [data_a EXCEPT ![lookup_a[account_b] + 1] =
                                        UpdatedRow(@, row_b)]
                     /\ UNCHANGED new_rows
                ELSE /\ new_rows' = Append(new_rows, NewRowData(row_b))
                     /\ UNCHANGED data_a
    /\ UNCHANGED <<run, sheet_a, sheet_b, b_exists, data_b, last_row, ops,
                   loaded_a, prev>>

\* line 75: the loop is over
MergeDone ==
    /\ pc = "merge"
    /\ i > DataRows(data_b)
    /\ pc' = "write"
    /\ UNCHANGED <<run, sheet_a, sheet_b, b_exists, data_a, data_b, lookup_a,
                   new_rows, i, last_row, ops, loaded_a, prev>>

\* line 81
Overwrite ==
    /\ pc = "write"
    /\ \E ok \in BOOLEAN :
        /\ Issue("overwrite", ok)
        /\ IF ok
           THEN /\ sheet_a' = UpdateA1(sheet_a, data_a)
                /\ pc' = AfterOverwrite(new_rows)
           ELSE /\ UNCHANGED sheet_a
                /\ pc' = OnFailure("write")
    /\ UNCHANGED <<run, sheet_b, b_exists, data_a, data_b, lookup_a,
                   new_rows, i, last_row, loaded_a, prev>>

\* lines 84-85
AppendNew ==
    /\ pc = "append"
    /\ \E ok \in BOOLEAN :
        /\ Issue("append", ok)
        /\ IF ok
           THEN /\ sheet_a' = AppendRows(sheet_a, new_rows)
                /\ pc' = "count"
           ELSE /\ UNCHANGED sheet_a
                /\ pc' = OnFailure("append")
    /\ UNCHANGED <<run, sheet_b, b_exists, data_a, data_b, lookup_a,
                   new_rows, i, last_row, loaded_a, prev>>

\* lines 91-92
CountRows ==
    /\ pc = "count"
    /\ \E ok \in BOOLEAN :
        /\ Issue("count", ok)
        /\ IF ok
           THEN /\ last_row' = Len(GetAllValues(sheet_a))
                /\ pc' = AfterCount(last_row')
           ELSE /\ UNCHANGED last_row
                /\ pc' = OnFailure("count")
    /\ UNCHANGED <<run, sheet_a, sheet_b, b_exists, data_a, data_b, lookup_a,
                   new_rows, i, loaded_a, prev>>

\* lines 94-95
ClearColumn ==
    /\ pc = "clear"
    /\ \E ok \in BOOLEAN :
        /\ Issue("clear", ok)
        /\ IF ok
           THEN /\ sheet_a' = BatchClear(sheet_a, last_row)
                /\ pc' = "formula"
           ELSE /\ UNCHANGED sheet_a
                /\ pc' = OnFailure("clear")
    /\ UNCHANGED <<run, sheet_b, b_exists, data_a, data_b, lookup_a,
                   new_rows, i, last_row, loaded_a, prev>>

\* lines 98-99
SetFormula ==
    /\ pc = "formula"
    /\ \E ok \in BOOLEAN :
        /\ Issue("formula", ok)
        /\ IF ok
           THEN /\ sheet_a' = UpdateL2(sheet_a, formula)
                /\ pc' = "delete"
           ELSE /\ UNCHANGED sheet_a
                /\ pc' = OnFailure("formula")
    /\ UNCHANGED <<run, sheet_b, b_exists, data_a, data_b, lookup_a,
                   new_rows, i, last_row, loaded_a, prev>>

\* lines 108-115
DeleteIncoming ==
    /\ pc = "delete"
    /\ \E ok \in BOOLEAN :
        /\ Issue("delete", ok)
        /\ IF ok
           THEN /\ b_exists' = FALSE
                /\ pc' = "done"
           ELSE /\ UNCHANGED b_exists
                /\ pc' = OnFailure("delete")
    /\ UNCHANGED <<run, sheet_a, sheet_b, data_a, data_b, lookup_a,
                   new_rows, i, last_row, loaded_a, prev>>

\* lines 118-119: the script is invoked again after a completed run
Rerun ==
    /\ pc = "done"
    /\ run < MaxRuns
    /\ run' = run + 1
    /\ pc' = "auth"
    /\ prev' = [done |-> TRUE, sheet |-> sheet_a, new_rows |-> new_rows,
                merged |-> data_a, lookup |-> lookup_a, data_b |-> data_b]
    /\ data_a' = <<>>
    /\ data_b' = <<>>
    /\ lookup_a' = <<>>
    /\ new_rows' = <<>>
    /\ i' = 0
    /\ last_row' = 0
    /\ ops' = <<>>
    /\ loaded_a' = <<>>
    /\ UNCHANGED <<sheet_a, sheet_b, b_exists>>

Next ==
    \/ Authenticate
    \/ LoadMain
    \/ LoadIncoming
    \/ MakeLookup
    \/ MergeRow
    \/ MergeDone
    \/ Overwrite
    \/ AppendNew
    \/ CountRows
    \/ ClearColumn
    \/ SetFormula
    \/ DeleteIncoming
    \/ Rerun

Spec == Init /\ [][Next]_vars

----------------------------------------------------------------------------
(* Vocabulary of the properties *)

PostMerge == {"write", "append", "count", "clear", "formula", "delete", "done"}

Issued(name) == \E n \in 1..Len(ops) : ops[n][1] = name
Succeeded(name) == \E n \in 1..Len(ops) : ops[n] = <<name, TRUE>>
Writes == {"overwrite", "append", "clear", "formula", "delete"}

\* the loop of lines 56-73 has run to its end in the current run
Merged == pc \in PostMerge \/ (pc = "aborted" /\ Issued("overwrite"))

MainData == 1..DataRows(loaded_a)
IncomingData == 1..DataRows(data_b)
KeyA(r) == At(loaded_a[r + 1], KEY_COL_A)
KeyB(q) == At(data_b[q + 1], KEY_COL_B)
MatchesOf(k) == {q \in IncomingData : KeyB(q) = k}
LastOf(S) == CHOOSE m \in S : \A n \in S : n <= m
IsLastWithKey(r) == \A r2 \in MainData : KeyA(r2) = KeyA(r) => r2 <= r
SameFrom(rowNew, rowOld, j) ==
    /\ Len(rowNew) = Len(rowOld)
    /\ \A c \in j..(Len(rowOld) - 1) : At(rowNew, c) = At(rowOld, c)
SpanEquals(row_a, row_b) ==
    \A c \in 0..(UPDATE_WIDTH - 1) : At(row_a, c) = At(row_b, c + 1)

\* both tables have every column the merge refers to
FullWidth ==
    /\ loaded_a # <<>>
    /\ data_b # <<>>
    /\ Len(loaded_a[1]) > KEY_COL_A
    /\ Len(data_b[1]) >= APPEND_HI

C1_Targeted(r) ==
    /\ KeyA(r) # Blank
    /\ MatchesOf(KeyA(r)) # {}
    /\ IsLastWithKey(r)

MainKeySet == {KeyA(r) : r \in MainData}
IsNewAccount(q) == KeyB(q) # Blank /\ KeyB(q) \notin MainKeySet
NewAccounts == {q \in IncomingData : IsNewAccount(q)}

\* the n-th smallest element of a finite set of numbers
RECURSIVE Nth(_, _)
Nth(S, n) ==
    LET lo == CHOOSE m \in S : \A v \in S : m <= v
    IN  IF n = 1 THEN lo ELSE Nth(S \ {lo}, n - 1)

C2_RowFrom(new_row, row_b) ==
    /\ Len(new_row) = Min(Len(row_b), APPEND_HI)
    /\ \A c \in 0..(Len(new_row) - 2) : At(new_row, c) = At(row_b, c + 1)
    /\ At(new_row, Len(new_row) - 1) = Num(DEFAULT_VALUE)
    /\ At(new_row, KEY_COL_A) = At(row_b, KEY_COL_B)

C3_EmptyKeyStep ==
    /\ pc = "merge"
    /\ i <= DataRows(data_b)
    /\ ~OutOfRange(data_b[i + 1], KEY_COL_B)
    /\ At(data_b[i + 1], KEY_COL_B) = Blank

Rematched ==
    IF prev.lookup = <<>> THEN {}
    ELSE {prev.lookup[k] : k \in {k2 \in DOMAIN prev.lookup :
            /\ k2 # Blank
            /\ \E q \in 1..DataRows(prev.data_b) : At(prev.data_b[q + 1], KEY_COL_B) = k2}}

C4_KeptRow(row, rowPrev) ==
    \A c \in 0..(Len(rowPrev) - 1) :
        c # COL_L => At(row, c) = Displayed(Entered(At(rowPrev, c)), "")

C4_UpdatedKept == \A r \in Rematched : C4_KeptRow(data_a[r + 1], prev.merged[r + 1])

Normal(sheet) ==
    [r \in 1..Len(sheet) |-> [c \in 1..SheetWidth(sheet) |-> StoredAt(sheet, r, c - 1)]]

InOrPastMerge == pc = "merge" \/ Merged
Processed == 1..(i - 1)
NoWriteIssued == \A n \in 1..Len(ops) : ops[n][1] \notin Writes

Rank(name) ==
    CASE name = "auth" -> 0
      [] name = "read_main" -> 1
      [] name = "read_incoming" -> 2
      [] name = "overwrite" -> 3
      [] name = "append" -> 4
      [] name = "count" -> 5
      [] name = "clear" -> 6
      [] name = "formula" -> 7
      [] name = "delete" -> 8

C6_Requires(name, earlier) == Issued(name) => Succeeded(earlier)

C6_OverwriteStays ==
    \A r \in 1..Len(data_a) : \A c \in 0..(Len(data_a[r]) - 1) :
        c # COL_L => StoredAt(sheet_a, r, c) = Entered(At(data_a[r], c))

C6_AppendStays ==
    \A n \in 1..Len(new_rows) : \A c \in 0..(Len(new_rows[n]) - 1) :
        StoredAt(sheet_a, Len(data_a) + n, c) = Entered(At(new_rows[n], c))

Attempts(log, name) == Cardinality({n \in 1..Len(log) : log[n][1] = name})

C9_StaticLookup ==
    InOrPastMerge =>
        /\ DOMAIN lookup_a = MainKeySet
        /\ \A k \in MainKeySet : lookup_a[k] = LastOf({r \in MainData : KeyA(r) = k})

C9_Repeated(k) == Cardinality(MatchesOf(k)) >= 2

C10_KeysDistinct(data) ==
    \A r1 \in 1..DataRows(data) : \A r2 \in 1..DataRows(data) :
        At(data[r1 + 1], KEY_COL_A) = At(data[r2 + 1], KEY_COL_A) => r1 = r2

----------------------------------------------------------------------------
(* C1, as stated: every main-table data row whose key equals the key of    *)
(* some incoming data row has, after the merge, fields 0..3 equal to       *)
(* fields 1..4 of such an incoming row and its other fields unchanged;     *)
(* rows whose key matches no incoming row are unchanged.  Stated for       *)
(* tables of full width.                                                   *)
C1_AsStated ==
    (Merged /\ FullWidth) =>
        \A r \in MainData :
            IF MatchesOf(KeyA(r)) # {}
            THEN /\ \E q \in MatchesOf(KeyA(r)) : SpanEquals(data_a[r + 1], data_b[q + 1])
                 /\ SameFrom(data_a[r + 1], loaded_a[r + 1], UPDATE_WIDTH)
            ELSE data_a[r + 1] = loaded_a[r + 1]

(* C1, amended: a main-table data row whose key is non-empty, equals the   *)
(* key of some incoming data row and is the last main-table row carrying   *)
(* that key has, after the merge, fields 0..3 equal to fields 1..4 of the  *)
(* last incoming row with that key and every other field unchanged; every  *)
(* other main-table data row is entirely unchanged.                        *)
C1_Update ==
    Merged =>
        \A r \in MainData :
            IF C1_Targeted(r)
            THEN /\ SpanEquals(data_a[r + 1], data_b[LastOf(MatchesOf(KeyA(r))) + 1])
                 /\ SameFrom(data_a[r + 1], loaded_a[r + 1], UPDATE_WIDTH)
            ELSE data_a[r + 1] = loaded_a[r + 1]

C1_Witness ==
    /\ Merged
    /\ \E r \in MainData : C1_Targeted(r) /\ data_a[r + 1] # loaded_a[r + 1]
    /\ \E r \in MainData : ~C1_Targeted(r)

----------------------------------------------------------------------------
----------------------------------------------------------------------------
(* C3: processing an incoming data row whose key field is the empty string *)
(* changes no main-table row and collects no new row, also when a          *)
(* main-table data row has an empty key.                                   *)
C3_EmptyKeySkipped ==
    [][C3_EmptyKeyStep => (data_a' = data_a /\ new_rows' = new_rows)]_vars

C3_Witness ==
    /\ pc = "merge"
    /\ i > 1
    /\ At(data_b[i], KEY_COL_B) = Blank
    /\ Blank \in DOMAIN lookup_a
    /\ data_a = loaded_a
    /\ new_rows = <<>>

----------------------------------------------------------------------------
(* C4, as stated: when the script runs again with the same incoming table  *)
(* on the main table the previous run produced, the rows the previous run  *)
(* update-matched keep their contents and every row the previous run       *)
(* appended is collected for append again.  Stated for tables of full      *)
(* width.                                                                  *)
C4_AsStated ==
    (prev.done /\ Merged /\ FullWidth) =>
        /\ C4_UpdatedKept
        /\ \A n \in 1..Len(prev.new_rows) :
                \E m \in 1..Len(new_rows) : new_rows[m] = prev.new_rows[n]

(* C4, amended: when the script runs again with the same incoming table on *)
(* the main table the previous run produced, the merge changes no row and  *)
(* collects no row for append: the rows the previous run appended now      *)
(* carry their keys in the main table and are update-matched with the      *)
(* values they already hold, and the run leaves the stored cells of the    *)
(* main sheet as the previous run left them.                               *)
C4_Rerun ==
    /\ (prev.done /\ Merged) =>
        /\ C4_UpdatedKept
        /\ new_rows = <<>>
        /\ data_a = loaded_a
        /\ \A n \in 1..Len(prev.new_rows) :
            /\ At(prev.new_rows[n], KEY_COL_A) \in DOMAIN lookup_a
            /\ C4_KeptRow(data_a[Len(prev.merged) + n], prev.new_rows[n])
    /\ (prev.done /\ pc \in {"delete", "done"}) => Normal(sheet_a) = Normal(prev.sheet)

C4_Witness ==
    /\ prev.done
    /\ pc = "done"
    /\ prev.new_rows # <<>>
    /\ Rematched # {}

----------------------------------------------------------------------------
----------------------------------------------------------------------------
(* C6: the calls of a run are issued in the order authenticate, read main, *)
(* read incoming, overwrite, append (only with a new row collected), row   *)
(* count, clear (only with more than one row), formula, delete; a call is  *)
(* issued only if every earlier call succeeded, so nothing follows a       *)
(* failed call and no write follows a fault; completed writes stay.        *)
C6_StageOrder ==
    /\ \A n \in 1..(Len(ops) - 1) :
            Rank(ops[n][1]) < Rank(ops[n + 1][1]) /\ ops[n][2]
    /\ C6_Requires("read_main", "auth")
    /\ C6_Requires("read_incoming", "read_main")
    /\ C6_Requires("overwrite", "read_incoming")
    /\ C6_Requires("count", "overwrite")
    /\ C6_Requires("formula", "count")
    /\ C6_Requires("delete", "formula")
    /\ Issued("append") => (Succeeded("overwrite") /\ new_rows # <<>>)
    /\ (Issued("count") /\ new_rows # <<>>) => Succeeded("append")
    /\ Issued("clear") => (Succeeded("count") /\ last_row > 1)
    /\ (Issued("formula") /\ last_row > 1) => Succeeded("clear")
    /\ pc = "fault" => NoWriteIssued
    /\ pc = "aborted" => ~Issued("delete")
    /\ Succeeded("overwrite") => C6_OverwriteStays
    /\ Succeeded("append") => C6_AppendStays

C6_Witness ==
    /\ pc = "done"
    /\ ops = <<<<"auth", TRUE>>, <<"read_main", TRUE>>, <<"read_incoming", TRUE>>,
               <<"overwrite", TRUE>>, <<"append", TRUE>>, <<"count", TRUE>>,
               <<"clear", TRUE>>, <<"formula", TRUE>>, <<"delete", TRUE>>>>

----------------------------------------------------------------------------
(* C7: the deletion of the incoming document is attempted once, after the  *)
(* formula write succeeded; the step that attempts it ends the run in its  *)
(* completed state whether the deletion succeeds or fails, and leaves the  *)
(* main sheet as it is.                                                    *)
C7_BestEffortCleanup ==
    [][/\ pc = "delete" =>
            /\ Succeeded("formula")
            /\ Attempts(ops, "delete") = 0
            /\ Attempts(ops', "delete") = 1
            /\ pc' = "done"
            /\ sheet_a' = sheet_a
       /\ (pc' = "done" /\ pc # "done") => pc = "delete"]_vars

C7_Witness ==
    /\ pc = "done"
    /\ ops[Len(ops)] = <<"delete", FALSE>>
    /\ b_exists
    /\ HasFormula(sheet_a)

----------------------------------------------------------------------------
(* C8: once the formula is written, with N the row count read after the    *)
(* overwrite and the append (appended rows included): if N > 1 the clear   *)
(* was issued, row 2 of column L holds the formula and rows 3..N of        *)
(* column L are empty, the clear having emptied rows 2..N before the       *)
(* formula write; if N <= 1 no clear was issued; the header cell of column *)
(* L is what the run read there.                                           *)
C8_PostProcessing ==
    /\ pc \in {"delete", "done"} =>
        /\ last_row = Len(data_a) + Len(new_rows)
        /\ StoredAt(sheet_a, FORMULA_ROW, COL_L) = FormulaCell(formula)
        /\ IF last_row > 1
           THEN /\ Succeeded("clear")
                /\ \A r \in (FORMULA_ROW + 1)..last_row : StoredAt(sheet_a, r, COL_L) = Blank
           ELSE ~Issued("clear")
    /\ (pc = "formula" /\ last_row > 1) =>
            \A r \in FORMULA_ROW..last_row : StoredAt(sheet_a, r, COL_L) = Blank
    /\ (loaded_a # <<>> /\ Len(loaded_a[1]) > COL_L) =>
            Displayed(StoredAt(sheet_a, 1, COL_L), "") = At(loaded_a[1], COL_L)

C8_Witness ==
    /\ pc = "done"
    /\ last_row = 4
    /\ new_rows # <<>>
    /\ Len(loaded_a[1]) > COL_L
    /\ At(loaded_a[1], COL_L) # Blank
    /\ At(loaded_a[2], COL_L) # Blank

----------------------------------------------------------------------------
(* C9, as stated: the lookup is the one built from the main table as read  *)
(* and the merge never changes it; a key of the main table that occurs in  *)
(* several incoming data rows leaves fields 0..3 of its row equal to       *)
(* fields 1..4 of the last of those incoming rows.  Stated for tables of   *)
(* full width.                                                             *)
C9_AsStated ==
    /\ C9_StaticLookup
    /\ (Merged /\ FullWidth) =>
        \A k \in MainKeySet :
            C9_Repeated(k) =>
                SpanEquals(data_a[lookup_a[k] + 1], data_b[LastOf(MatchesOf(k)) + 1])

(* C9, amended: the lookup is the one built from the main table as read    *)
(* and the merge never changes it; a non-empty key of the main table that  *)
(* occurs in several incoming data rows leaves fields 0..3 of its row      *)
(* equal to fields 1..4 of the last of those incoming rows, each           *)
(* occurrence having overwritten that same row.                            *)
C9_LastWins ==
    /\ C9_StaticLookup
    /\ Merged =>
        \A k \in MainKeySet :
            (k # Blank /\ C9_Repeated(k)) =>
                SpanEquals(data_a[lookup_a[k] + 1], data_b[LastOf(MatchesOf(k)) + 1])
    /\ (pc = "merge" /\ i > 1 /\ KeyB(i - 1) # Blank /\ KeyB(i - 1) \in MainKeySet) =>
            SpanEquals(data_a[lookup_a[KeyB(i - 1)] + 1], data_b[i])

C9_Witness ==
    /\ Merged
    /\ \E k \in MainKeySet : k # Blank /\ C9_Repeated(k)
    /\ Cardinality(MainData) = 2

----------------------------------------------------------------------------
(* C10, as stated: if the keys of the main-table data rows the run read    *)
(* are pairwise distinct, the keys of the data rows of the main sheet      *)
(* after the completed run, appended rows included, are pairwise distinct. *)
(* Stated for tables of full width.                                        *)
C10_AsStated ==
    (pc = "done" /\ FullWidth /\ C10_KeysDistinct(loaded_a)) =>
        C10_KeysDistinct(GetAllValues(sheet_a))
====
